---------------------------- MODULE Spec2Model ----------------------------
(***************************************************************************)
(* Model of dcs_core/core/validation/base.py: ValidationIdentity,          *)
(* Validation and DeltaValidation.                                         *)
(*                                                                         *)
(* Python values are represented as follows.                               *)
(*   - an Optional value is a sequence of length at most one: <<>> is      *)
(*     None and <<x>> is the value x;                                      *)
(*   - a str is a sequence of one-character strings, so that "".join and   *)
(*     emptiness are computed and not assumed;                             *)
(*   - the completion of a call is a record [exc, val]: exc is None when   *)
(*     the call returned val, and <<[cls, msg]>> when it raised.           *)
(***************************************************************************)
EXTENDS Integers, Sequences, FiniteSets, TLC

VARIABLES
    call,       \* arguments of the pure function under evaluation
    ret,        \* its completion, once it has been applied
    units,      \* the constructed validation units (their instance fields)
    log,        \* loguru sink: the logger.error entries, oldest first
    stdout,     \* number of tracebacks printed on sys.stdout
    clock,      \* datetime.datetime.utcnow(), as a tick counter
    constructed,\* history: the units as their constructors left them
    history,    \* history: per get_validation_info call, the unit and how it ended
    lastCall    \* history: what the latest get_validation_info call did and returned

vars == <<call, ret, units, log, stdout, clock, constructed, history, lastCall>>

(***************************************************************************)
(* Bounds                                                                  *)
(***************************************************************************)
MaxStrLen == 1
MaxBound == 2
MaxMetric == 3
MaxWhereLen == 3
MaxCalls == 2
MaxHook == 1

(***************************************************************************)
(* Python values                                                           *)
(***************************************************************************)
None == <<>>

Some(x) == <<x>>

Optional(S) == {None} \cup {Some(x) : x \in S}

\* Python truthiness of an Optional[str] / Optional[list]: None and the
\* empty sequence are falsy.
Truthy(o) == o # None /\ o[1] # <<>>

Chars == {"a", "b"}

StrsOfLen(A, n) == [1..n -> A]

StrsUpTo(A, n) == UNION {StrsOfLen(A, k) : k \in 0..n}

Return(v) == [exc |-> None, val |-> v]

Raise(cls, msg) == [exc |-> Some([cls |-> cls, msg |-> msg]), val |-> None]

Raised(c) == c.exc # None

\* The classes that `except Exception` catches.  KeyboardInterrupt,
\* SystemExit and GeneratorExit derive from BaseException only.
ExceptionClasses == {"Exception", "RuntimeError", "TypeError", "AttributeError", "JSONDecodeError"}

BaseOnlyClasses == {"KeyboardInterrupt"}

IsException(cls) == cls \in ExceptionClasses

(***************************************************************************)
(* ValidationIdentity.generate_identity                                    *)
(***************************************************************************)
RECURSIVE join(_, _)
join(sep, parts) ==
    IF parts = <<>> THEN <<>>
    ELSE IF Len(parts) = 1 THEN parts[1]
    ELSE parts[1] \o sep \o join(sep, Tail(parts))

\* validation_function is a ValidationFunction member, represented by its
\* .value tag (a str mixin enum is truthy exactly when its value is).
generate_identity(validation_function, validation_name, data_source_name, dataset_name, field_name) ==
    LET i0 == <<>>
        i1 == IF data_source_name # None THEN Append(i0, data_source_name[1]) ELSE i0
        i2 == IF Truthy(dataset_name) THEN Append(i1, dataset_name[1]) ELSE i1
        i3 == IF Truthy(field_name) THEN Append(i2, field_name[1]) ELSE i2
        i4 == IF Truthy(validation_function) THEN Append(i3, validation_function[1]) ELSE i3
        i5 == IF Truthy(validation_name) THEN Append(i4, validation_name[1]) ELSE i4
    IN  join(<<".">>, i5)

(***************************************************************************)
(* Threshold and ConditionType (dcs_core.core.common.models.validation)    *)
(***************************************************************************)
ConditionType_GTE == "gte"

ConditionType_LTE == "lte"

ConditionType_GT == "gt"

ConditionType_LT == "lt"

ConditionType_EQ == "eq"

\* threshold.__dict__.items(): the five bounds in the order the fields are
\* assigned by the constructor, each an Optional number.
Threshold(gte, lte, gt, lt, eq) ==
    << <<"gte", gte>>, <<"lte", lte>>, <<"gt", gt>>, <<"lt", lt>>, <<"eq", eq>> >>

BoundValues == Optional(0..MaxBound)

Thresholds ==
    {Threshold(a, b, c, d, e) : a \in BoundValues, b \in BoundValues, c \in BoundValues,
                                d \in BoundValues, e \in BoundValues}

(***************************************************************************)
(* Validation._validate_threshold                                          *)
(***************************************************************************)
TypeErrorMsg == "'<' not supported between instances of 'NoneType' and 'int'"

\* The loop over self.threshold.__dict__.items(), from item i on.  An
\* ordering comparison of None with a number raises TypeError; `!=` does not.
RECURSIVE validate_threshold_from(_, _, _)
validate_threshold_from(items, i, metric_value) ==
    IF i > Len(items) THEN Return(<<TRUE, None>>)
    ELSE LET operator == items[i][1]
             value == items[i][2]
             next == validate_threshold_from(items, i + 1, metric_value)
         IN  IF value = None THEN next
             ELSE IF ConditionType_GTE = operator THEN
                 IF metric_value = None THEN Raise("TypeError", TypeErrorMsg)
                 ELSE IF metric_value[1] < value[1]
                      THEN Return(<<FALSE, Some(<<"Less than threshold value of", value[1]>>)>>)
                      ELSE next
             ELSE IF ConditionType_LTE = operator THEN
                 IF metric_value = None THEN Raise("TypeError", TypeErrorMsg)
                 ELSE IF metric_value[1] > value[1]
                      THEN Return(<<FALSE, Some(<<"Greater than threshold value of", value[1]>>)>>)
                      ELSE next
             ELSE IF ConditionType_GT = operator THEN
                 IF metric_value = None THEN Raise("TypeError", TypeErrorMsg)
                 ELSE IF metric_value[1] <= value[1]
                      THEN Return(<<FALSE, Some(<<"Less than or equal to threshold value of", value[1]>>)>>)
                      ELSE next
             ELSE IF ConditionType_LT = operator THEN
                 IF metric_value = None THEN Raise("TypeError", TypeErrorMsg)
                 ELSE IF metric_value[1] >= value[1]
                      THEN Return(<<FALSE, Some(<<"Greater than or equal to threshold value of", value[1]>>)>>)
                      ELSE next
             ELSE IF ConditionType_EQ = operator THEN
                 IF metric_value # value
                 THEN Return(<<FALSE, Some(<<"Not equal to the value of", value[1]>>)>>)
                 ELSE next
             ELSE next

\* A loop that examines the bounds last to first.
validate_threshold_reversed(threshold, metric_value) ==
    validate_threshold_from([k \in 1..Len(threshold) |-> threshold[Len(threshold) + 1 - k]], 1, metric_value)

\* A loop whose GTE branch is missing.
validate_threshold_no_gte(threshold, metric_value) ==
    validate_threshold_from([k \in 1..Len(threshold) |->
                                IF threshold[k][1] = ConditionType_GTE
                                THEN <<threshold[k][1], None>> ELSE threshold[k]],
                            1, metric_value)

_validate_threshold(threshold, metric_value) == validate_threshold_from(threshold, 1, metric_value)

(***************************************************************************)
(* json.loads, on documents written with "[", "]" and the digit "1":       *)
(* integers and (nested) arrays of at most one element.  Parsed values and *)
(* plain strings are tagged, a str as [t |-> "str"].                       *)
(***************************************************************************)
WhereChars == {"[", "]", "1"}

PyStr(s) == [t |-> "str", v |-> s]

RECURSIVE Decimal(_)
Decimal(digits) ==
    IF digits = <<>> THEN 0
    ELSE 10 * Decimal(SubSeq(digits, 1, Len(digits) - 1)) + 1

RECURSIVE json_value(_)
json_value(s) ==
    IF s = <<>> THEN None
    ELSE IF \A k \in 1..Len(s) : s[k] = "1" THEN Some([t |-> "int", v |-> Decimal(s)])
    ELSE IF Len(s) >= 2 /\ s[1] = "[" /\ s[Len(s)] = "]" THEN
        LET inner == SubSeq(s, 2, Len(s) - 1)
        IN  IF inner = <<>> THEN Some([t |-> "list", v |-> <<>>])
            ELSE LET e == json_value(inner)
                 IN  IF e = None THEN None ELSE Some([t |-> "list", v |-> <<e[1]>>])
    ELSE None

json_loads(s) ==
    IF json_value(s) = None THEN Raise("JSONDecodeError", "Expecting value")
    ELSE Return(json_value(s)[1])

(***************************************************************************)
(* DataSource and DataSourceLanguageSupport                                *)
(***************************************************************************)
DSL_ES == "dsl_es"

SQL == "sql"

\* A dialect tag that is neither of the two the constructor knows.
OTHER_DIALECT == "other"

LanguageSupports == {DSL_ES, SQL, OTHER_DIALECT}

DataSource(data_source_name, language_support) ==
    [data_source_name |-> data_source_name, language_support |-> language_support]

AttributeErrorMsg == "'NoneType' object has no attribute"

(***************************************************************************)
(* Validation.__init__ and DeltaValidation.__init__                        *)
(***************************************************************************)
\* The `if validation_config.where:` statement: the new where_filter.
InitWhereFilter(validation_config, data_source) ==
    IF Truthy(validation_config.where) THEN
        IF data_source = None THEN Raise("AttributeError", AttributeErrorMsg)
        ELSE IF data_source[1].language_support = DSL_ES THEN
            LET parsed == json_loads(validation_config.where[1])
            IN  IF Raised(parsed) THEN parsed ELSE Return(Some(parsed.val))
        ELSE IF data_source[1].language_support = SQL THEN
            Return(Some(PyStr(validation_config.where[1])))
        ELSE Return(None)
    ELSE Return(None)

\* values is retained whatever the dialect.
InitValuesAnyDialect(validation_config, data_source) ==
    IF Truthy(validation_config.values) THEN
        IF data_source = None THEN Raise("AttributeError", AttributeErrorMsg)
        ELSE Return(validation_config.values)
    ELSE Return(None)

\* The `if validation_config.values:` statement: the new values.
InitValues(validation_config, data_source) ==
    IF Truthy(validation_config.values) THEN
        IF data_source = None THEN Raise("AttributeError", AttributeErrorMsg)
        ELSE IF data_source[1].language_support = SQL THEN Return(validation_config.values)
        ELSE Return(None)
    ELSE Return(None)

Validation__init__(name, validation_config, data_source, dataset_name, field_name) ==
    LET where_filter == InitWhereFilter(validation_config, data_source)
        values == InitValues(validation_config, data_source)
    IN  IF Raised(where_filter) THEN where_filter
        ELSE IF Raised(values) THEN values
        ELSE Return([cls |-> "Validation",
                     name |-> name,
                     validation_config |-> validation_config,
                     data_source |-> data_source,
                     dataset_name |-> dataset_name,
                     field_name |-> field_name,
                     query |-> validation_config.query,
                     threshold |-> validation_config.threshold,
                     where_filter |-> where_filter.val,
                     values |-> values.val,
                     regex_pattern |-> validation_config.regex,
                     reference_data_source |-> None,
                     reference_dataset_name |-> None,
                     reference_field_name |-> None])

\* super().__init__ is called without field_name, which keeps its default.
DeltaValidation__init__(name, validation_config, data_source, dataset_name, reference_data_source, reference_dataset_name, reference_field_name) ==
    LET base == Validation__init__(name, validation_config, data_source, dataset_name, None)
    IN  IF Raised(base) THEN base
        ELSE Return([base.val EXCEPT !.cls = "DeltaValidation",
                                     !.reference_data_source = reference_data_source,
                                     !.reference_dataset_name = reference_dataset_name,
                                     !.reference_field_name = reference_field_name])

(***************************************************************************)
(* Validation.get_validation_identity                                      *)
(***************************************************************************)
get_validation_identity(self) ==
    IF self.data_source = None THEN Raise("AttributeError", AttributeErrorMsg)
    ELSE Return(generate_identity(self.validation_config.get_validation_function,
                                  self.name,
                                  self.data_source[1].data_source_name,
                                  self.dataset_name,
                                  self.field_name))

(***************************************************************************)
(* Validation.get_validation_info and DeltaValidation.get_validation_info  *)
(*                                                                         *)
(* The hooks are abstract: what each returns or raises in a call is an     *)
(* input.  A hook completion carries an Optional number (None when the     *)
(* hook returns a non-number).  The try block is a record [c, trace]: its  *)
(* completion and the methods it invoked, in order.                        *)
(***************************************************************************)
Body(c, trace) == [c |-> c, trace |-> trace]

\* ValidationInfo / DeltaValidationInfo as assembled, before any verdict.
ValidationInfo(self, identity, metric_value, now) ==
    [cls |-> "ValidationInfo",
     name |-> self.name,
     identity |-> identity,
     data_source_name |-> self.data_source[1].data_source_name,
     dataset |-> self.dataset_name,
     validation_function |-> self.validation_config.get_validation_function,
     field |-> self.field_name,
     value |-> metric_value,
     timestamp |-> now,
     tags |-> [name |-> self.name],
     is_valid |-> None,
     reason |-> None,
     source_value |-> None,
     reference_value |-> None,
     reference_datasource_name |-> None,
     reference_dataset |-> None]

DeltaValidationInfo(self, identity, delta_value, metric_value, reference_metric_value, now) ==
    [ValidationInfo(self, identity, Some(delta_value), now) EXCEPT
        !.cls = "DeltaValidationInfo",
        !.source_value = metric_value,
        !.reference_value = reference_metric_value,
        !.reference_datasource_name = self.reference_data_source[1].data_source_name,
        !.reference_dataset = self.reference_dataset_name]

\* The verdict is attached whenever the threshold has a populated bound.
AttachVerdictIfAnyBound(self, value, metric_value, trace) ==
    IF self.threshold # None /\ \E k \in 1..Len(self.threshold[1]) : self.threshold[1][k][2] # None THEN
        LET verdict == _validate_threshold(self.threshold[1], metric_value)
        IN  IF Raised(verdict) THEN Body(verdict, Append(trace, "_validate_threshold"))
            ELSE Body(Return([value EXCEPT !.is_valid = Some(verdict.val[1]),
                                           !.reason = verdict.val[2]]),
                      Append(trace, "_validate_threshold"))
    ELSE Body(Return(value), trace)

\* `if self.threshold is not None: value.is_valid, value.reason = ...`
AttachVerdict(self, value, metric_value, trace) ==
    IF self.threshold # None THEN
        LET verdict == _validate_threshold(self.threshold[1], metric_value)
        IN  IF Raised(verdict) THEN Body(verdict, Append(trace, "_validate_threshold"))
            ELSE Body(Return([value EXCEPT !.is_valid = Some(verdict.val[1]),
                                           !.reason = verdict.val[2]]),
                      Append(trace, "_validate_threshold"))
    ELSE Body(Return(value), trace)

ValidationTry(self, metric, now) ==
    LET trace == <<"_generate_metric_value">>
    IN  IF Raised(metric) THEN Body(metric, trace)
        ELSE LET metric_value == metric.val
                 identity == get_validation_identity(self)
             IN  IF Raised(identity) THEN Body(identity, trace)
                 ELSE AttachVerdict(self, ValidationInfo(self, identity.val, metric_value, now),
                                    metric_value, trace)

SubtractErrorMsg == "unsupported operand type(s) for -"

Abs(x) == IF x < 0 THEN -x ELSE x

\* The difference without abs().
signed_delta_of(metric_value, reference_metric_value) ==
    IF metric_value = None \/ reference_metric_value = None
    THEN Raise("TypeError", SubtractErrorMsg)
    ELSE Return(metric_value[1] - reference_metric_value[1])

\* abs(metric_value - reference_metric_value)
delta_of(metric_value, reference_metric_value) ==
    IF metric_value = None \/ reference_metric_value = None
    THEN Raise("TypeError", SubtractErrorMsg)
    ELSE Return(Abs(metric_value[1] - reference_metric_value[1]))

\* The reference hook is invoked first.
DeltaHooksReferenceFirst(metric, reference) ==
    IF Raised(reference) THEN Body(reference, <<"_generate_reference_metric_value">>)
    ELSE IF Raised(metric)
         THEN Body(metric, <<"_generate_reference_metric_value", "_generate_metric_value">>)
         ELSE Body(Return(<<metric.val, reference.val>>),
                   <<"_generate_reference_metric_value", "_generate_metric_value">>)

\* Lines 200-201: the two hooks, the reference hook only once the primary
\* hook has returned.  [c, trace] with c.val = <<metric, reference>>.
DeltaHooks(metric, reference) ==
    IF Raised(metric) THEN Body(metric, <<"_generate_metric_value">>)
    ELSE IF Raised(reference)
         THEN Body(reference, <<"_generate_metric_value", "_generate_reference_metric_value">>)
         ELSE Body(Return(<<metric.val, reference.val>>),
                   <<"_generate_metric_value", "_generate_reference_metric_value">>)

DeltaTry(self, metric, reference, now) ==
    LET hooks == DeltaHooks(metric, reference)
    IN  IF Raised(hooks.c) THEN hooks
        ELSE LET metric_value == hooks.c.val[1]
                 reference_metric_value == hooks.c.val[2]
                 delta_value == delta_of(metric_value, reference_metric_value)
                 identity == get_validation_identity(self)
             IN  IF Raised(delta_value) THEN Body(delta_value, hooks.trace)
                 ELSE IF Raised(identity) THEN Body(identity, hooks.trace)
                 ELSE IF self.reference_data_source = None
                      THEN Body(Raise("AttributeError", AttributeErrorMsg), hooks.trace)
                 ELSE AttachVerdict(self,
                                    DeltaValidationInfo(self, identity.val, delta_value.val,
                                                        metric_value, reference_metric_value, now),
                                    Some(delta_value.val), hooks.trace)

\* An except clause that catches RuntimeError only.
ExceptRuntimeErrorOnly(self, e) ==
    IF e.cls = "RuntimeError"
    THEN [ret |-> None, propagated |-> None, stdout |-> 1,
          log |-> << <<"Failed to generate metric", self.name, e.msg>> >>, self |-> self]
    ELSE [ret |-> None, propagated |-> Some(e), stdout |-> 0, log |-> <<>>, self |-> self]

\* An except clause that also drops the unit's threshold.
ExceptDropsThreshold(self, e) ==
    IF IsException(e.cls)
    THEN [ret |-> None, propagated |-> None, stdout |-> 1,
          log |-> << <<"Failed to generate metric", self.name, e.msg>> >>,
          self |-> [self EXCEPT !.threshold = None]]
    ELSE [ret |-> None, propagated |-> Some(e), stdout |-> 0, log |-> <<>>, self |-> self]

\* An except clause that logs the failure twice.
ExceptLogsTwice(self, e) ==
    IF IsException(e.cls)
    THEN [ret |-> None, propagated |-> None, stdout |-> 1,
          log |-> << <<"Failed to generate metric", self.name, e.msg>>,
                     <<"Failed to generate metric", self.name, e.msg>> >>, self |-> self]
    ELSE [ret |-> None, propagated |-> Some(e), stdout |-> 0, log |-> <<>>, self |-> self]

\* `except Exception as e:` applied to the exception e the try block raised:
\* what the call returns or propagates, what it prints and logs, and the
\* instance afterwards.
ExceptClause(self, e) ==
    IF IsException(e.cls)
    THEN [ret |-> None, propagated |-> None, stdout |-> 1,
          log |-> << <<"Failed to generate metric", self.name, e.msg>> >>, self |-> self]
    ELSE [ret |-> None, propagated |-> Some(e), stdout |-> 0, log |-> <<>>, self |-> self]

\* The outcome of a call from the try block's [c, trace].
TryExcept(self, body) ==
    LET after == IF Raised(body.c) THEN ExceptClause(self, body.c.exc[1])
                 ELSE [ret |-> Some(body.c.val), propagated |-> None, stdout |-> 0,
                       log |-> <<>>, self |-> self]
    IN  [ret |-> after.ret, propagated |-> after.propagated, stdout |-> after.stdout,
         log |-> after.log, self |-> after.self, trace |-> body.trace, raised |-> body.c.exc]

Validation_get_validation_info(self, metric, now) ==
    TryExcept(self, ValidationTry(self, metric, now))

DeltaValidation_get_validation_info(self, metric, reference, now) ==
    TryExcept(self, DeltaTry(self, metric, reference, now))

(***************************************************************************)
(* Specifications of the pure functions: the arguments are drawn in Init,  *)
(* the action applies the function to them.                                *)
(***************************************************************************)
NotCalled == [done |-> FALSE, exc |-> None, val |-> None]

Completed(c) == [done |-> TRUE, exc |-> c.exc, val |-> c.val]

NoUnits == <<>>

IdleLifecycle ==
    /\ units = NoUnits
    /\ log = <<>>
    /\ stdout = 0
    /\ clock = 0
    /\ constructed = NoUnits
    /\ history = <<>>
    /\ lastCall = None

Strs == StrsUpTo(Chars, MaxStrLen)

NonEmptyStrs == Strs \ {<<>>}

MetricValues == 0..MaxMetric

IdentityCalls ==
    [fn : {"generate_identity"},
     validation_function : Optional(NonEmptyStrs),
     validation_name : Optional(Strs),
     data_source_name : Optional(Strs),
     dataset_name : Optional(Strs),
     field_name : Optional(Strs)]

InitIdentity ==
    /\ call \in IdentityCalls
    /\ ret = NotCalled
    /\ IdleLifecycle

GenerateIdentity ==
    /\ call.fn = "generate_identity"
    /\ ~ret.done
    /\ ret' = Completed(Return(generate_identity(call.validation_function, call.validation_name,
                                                 call.data_source_name, call.dataset_name,
                                                 call.field_name)))
    /\ UNCHANGED <<call, units, log, stdout, clock, constructed, history, lastCall>>

SpecIdentity == InitIdentity /\ [][GenerateIdentity]_vars

ThresholdCalls ==
    [fn : {"_validate_threshold"},
     threshold : Thresholds,
     metric_value : Optional(MetricValues)]

InitThreshold ==
    /\ call \in ThresholdCalls
    /\ ret = NotCalled
    /\ IdleLifecycle

ValidateThreshold ==
    /\ call.fn = "_validate_threshold"
    /\ ~ret.done
    /\ ret' = Completed(_validate_threshold(call.threshold, call.metric_value))
    /\ UNCHANGED <<call, units, log, stdout, clock, constructed, history, lastCall>>

SpecThreshold == InitThreshold /\ [][ValidateThreshold]_vars

ValidationConfig(threshold, where, values) ==
    [query |-> Some(<<"q">>),
     threshold |-> threshold,
     where |-> where,
     values |-> values,
     regex |-> Some(<<"x">>),
     get_validation_function |-> Some(<<"f">>)]

ValuesLists == {<<>>, <<"x">>}

ConstructCalls ==
    [fn : {"__init__"},
     cls : {"Validation", "DeltaValidation"},
     where : Optional(StrsUpTo(WhereChars, MaxWhereLen)),
     values : Optional(ValuesLists),
     data_source : Optional({DataSource(Some(<<"s">>), l) : l \in LanguageSupports})]

InitConstruct ==
    /\ call \in ConstructCalls
    /\ ret = NotCalled
    /\ IdleLifecycle

ConstructValidation ==
    /\ call.fn = "__init__"
    /\ call.cls = "Validation"
    /\ ~ret.done
    /\ ret' = Completed(Validation__init__(Some(<<"a">>),
                                           ValidationConfig(None, call.where, call.values),
                                           call.data_source, Some(<<"t">>), Some(<<"c">>)))
    /\ UNCHANGED <<call, units, log, stdout, clock, constructed, history, lastCall>>

ConstructDelta ==
    /\ call.fn = "__init__"
    /\ call.cls = "DeltaValidation"
    /\ ~ret.done
    /\ ret' = Completed(DeltaValidation__init__(Some(<<"a">>),
                                                ValidationConfig(None, call.where, call.values),
                                                call.data_source, Some(<<"t">>),
                                                Some(DataSource(Some(<<"r">>), SQL)),
                                                Some(<<"u">>), None))
    /\ UNCHANGED <<call, units, log, stdout, clock, constructed, history, lastCall>>

SpecConstruct == InitConstruct /\ [][ConstructValidation \/ ConstructDelta]_vars

(***************************************************************************)
(* The lifecycle: units are constructed, then get_validation_info is       *)
(* called on them any number of times, in any order.                       *)
(***************************************************************************)
UnitKeys == {"a", "b"}

UnsetThreshold == Threshold(None, None, None, None, None)

LifecycleThresholds ==
    {None, Some(UnsetThreshold),
     Some(Threshold(Some(MaxHook), None, None, None, None)),
     Some(Threshold(None, Some(0), None, None, Some(0)))}

PrimarySource == Some(DataSource(Some(<<"s">>), SQL))

ReferenceSource == Some(DataSource(Some(<<"r">>), SQL))

\* The units a caller may have built under key k: of either class, with each
\* threshold; one of each class was handed no (reference) data source.
ConstructedAs(k) ==
    LET made ==
            {Validation__init__(Some(<<k>>), ValidationConfig(th, Some(<<"1">>), Some(<<"x">>)),
                                PrimarySource, Some(<<"t">>), Some(<<"c">>)) :
                th \in LifecycleThresholds}
            \cup
            {Validation__init__(Some(<<k>>), ValidationConfig(None, None, None), None,
                                Some(<<"t">>), Some(<<"c">>))}
            \cup
            {DeltaValidation__init__(Some(<<k>>), ValidationConfig(th, Some(<<"1">>), Some(<<"x">>)),
                                     PrimarySource, Some(<<"t">>), ReferenceSource, Some(<<"u">>),
                                     None) :
                th \in LifecycleThresholds}
            \cup
            {DeltaValidation__init__(Some(<<k>>), ValidationConfig(Some(UnsetThreshold), None, None),
                                     PrimarySource, Some(<<"t">>), None, Some(<<"u">>), None)}
    IN  {c.val : c \in {m \in made : ~Raised(m)}}

HookOutcomes ==
    {Return(Some(v)) : v \in 0..MaxHook}
    \cup {Return(None), Raise("RuntimeError", "boom"), Raise("KeyboardInterrupt", "")}

Ending(r) ==
    IF r.propagated # None THEN "propagated"
    ELSE IF r.ret = None THEN "contained"
    ELSE "result"

Init ==
    /\ call = None
    /\ ret = NotCalled
    /\ units \in [UnitKeys -> UNION {ConstructedAs(k) : k \in UnitKeys}]
    /\ \A k \in UnitKeys : units[k] \in ConstructedAs(k)
    /\ constructed = units
    /\ log = <<>>
    /\ stdout = 0
    /\ clock = 0
    /\ history = <<>>
    /\ lastCall = None

Record(k, hooks, r) ==
    /\ units' = [units EXCEPT ![k] = r.self]
    /\ log' = log \o r.log
    /\ stdout' = stdout + r.stdout
    /\ clock' = clock + 1
    /\ history' = Append(history, [unit |-> k, ending |-> Ending(r)])
    /\ lastCall' = Some([unit |-> k, hooks |-> hooks, now |-> clock, ret |-> r.ret,
                         propagated |-> r.propagated, log |-> r.log, trace |-> r.trace,
                         raised |-> r.raised])
    /\ UNCHANGED <<call, ret, constructed>>

Evaluate(k) ==
    /\ clock < MaxCalls
    /\ units[k].cls = "Validation"
    /\ \E metric \in HookOutcomes :
          Record(k, <<metric>>, Validation_get_validation_info(units[k], metric, clock))

\* The reference hook's outcome matters only when the primary hook returns.
DeltaEvaluate(k) ==
    /\ clock < MaxCalls
    /\ units[k].cls = "DeltaValidation"
    /\ \E metric \in HookOutcomes, reference \in HookOutcomes :
          /\ Raised(metric) => reference = metric
          /\ Record(k, <<metric, reference>>,
                    DeltaValidation_get_validation_info(units[k], metric, reference, clock))

Next == \E k \in UnitKeys : Evaluate(k) \/ DeltaEvaluate(k)

Spec == Init /\ [][Next]_vars

(***************************************************************************)
(* Properties                                                              *)
(***************************************************************************)
ThresholdDone == ret.done /\ call.fn = "_validate_threshold"

BoundOf(threshold, operator) ==
    LET k == CHOOSE j \in 1..Len(threshold) : threshold[j][1] = operator
    IN  threshold[k][2]

BoundHolds(operator, m, v) ==
    CASE operator = "gte" -> m >= v
      [] operator = "lte" -> m <= v
      [] operator = "gt" -> m > v
      [] operator = "lt" -> m < v
      [] operator = "eq" -> m = v

CanonicalOrder == <<"gte", "lte", "gt", "lt", "eq">>

AllSetBoundsHold(threshold, m) ==
    \A k \in 1..Len(CanonicalOrder) :
        LET v == BoundOf(threshold, CanonicalOrder[k])
        IN  v # None => BoundHolds(CanonicalOrder[k], m, v[1])

\* C2: for a numeric metric and any subset of populated bounds,
\* _validate_threshold returns is_valid = TRUE exactly when every set bound
\* holds (GTE/LTE inclusive, GT/LT strict, EQ equality); unset bounds do not
\* count, and an unsatisfiable set of bounds fails for every metric.
ThresholdVerdictIsConjunction ==
    (ThresholdDone /\ call.metric_value # None) =>
        /\ ret.exc = None
        /\ ret.val[1] = AllSetBoundsHold(call.threshold, call.metric_value[1])

\* Two bounds set, the metric on the inclusive GTE boundary, verdict TRUE.
WitnessInclusiveBoundaryPasses ==
    /\ ThresholdDone
    /\ call.metric_value # None
    /\ BoundOf(call.threshold, "gte") = call.metric_value
    /\ BoundOf(call.threshold, "lt") # None
    /\ ret.val[1] = TRUE

ClaimedReason(operator, v) ==
    CASE operator = "gte" -> <<"Less than threshold value of", v>>
      [] operator = "lte" -> <<"Greater than threshold value of", v>>
      [] operator = "gt" -> <<"Less than or equal to threshold value of", v>>
      [] operator = "lt" -> <<"Greater than or equal to threshold value of", v>>
      [] operator = "eq" -> <<"Not equal to the value of", v>>

FailingPositions(threshold, m) ==
    {k \in 1..Len(CanonicalOrder) :
        LET v == BoundOf(threshold, CanonicalOrder[k])
        IN  v # None /\ ~BoundHolds(CanonicalOrder[k], m, v[1])}

Minimum(S) == CHOOSE x \in S : \A y \in S : x <= y

ExpectedVerdict(threshold, m) ==
    LET failing == FailingPositions(threshold, m)
    IN  IF failing = {} THEN <<TRUE, None>>
        ELSE LET operator == CanonicalOrder[Minimum(failing)]
             IN  <<FALSE, Some(ClaimedReason(operator, BoundOf(threshold, operator)[1]))>>

IdentityDone == ret.done /\ call.fn = "generate_identity"

IdentityMembers ==
    <<call.data_source_name, call.dataset_name, call.field_name,
      call.validation_function, call.validation_name>>

NonEmptyMembers ==
    LET kept == SelectSeq(IdentityMembers, Truthy)
    IN  [k \in 1..Len(kept) |-> kept[k][1]]

NoEmptySegment(identity) ==
    \/ identity = <<>>
    \/ /\ identity[1] # "."
       /\ identity[Len(identity)] # "."
       /\ \A k \in 1..(Len(identity) - 1) : ~(identity[k] = "." /\ identity[k + 1] = ".")

\* C4: generate_identity returns exactly the non-empty, non-null members in
\* the order data_source_name, dataset_name, field_name, validation_function,
\* validation_name joined with ".", and the result has no empty segment.
IdentityIsNonEmptyMembersJoined ==
    IdentityDone =>
        /\ ret.val = join(<<".">>, NonEmptyMembers)
        /\ NoEmptySegment(ret.val)

ConstructDone == ret.done /\ call.fn = "__init__"

Dialect == call.data_source[1].language_support

\* C7: after construction where_filter is the parse of `where` under DSL_ES,
\* the `where` string itself under SQL and unset otherwise or when `where` is
\* absent or empty; values is kept under SQL only; and with a dialect that is
\* neither, construction raises nothing and leaves both unset.
DialectGatesFilterAndValues ==
    (ConstructDone /\ call.data_source # None) =>
        /\ ret.exc = None =>
              /\ ret.val.where_filter =
                    IF Truthy(call.where) /\ Dialect = DSL_ES
                    THEN Some(json_value(call.where[1])[1])
                    ELSE IF Truthy(call.where) /\ Dialect = SQL
                    THEN Some(PyStr(call.where[1]))
                    ELSE None
              /\ ret.val.values =
                    IF Truthy(call.values) /\ Dialect = SQL THEN call.values ELSE None
              /\ (Truthy(call.where) /\ Dialect = DSL_ES) => ret.val.where_filter[1].t # "str"
        /\ Dialect \notin {DSL_ES, SQL} =>
              /\ ret.exc = None
              /\ ret.val.where_filter = None
              /\ ret.val.values = None

\* Under DSL_ES the document "[1]" is held as a one-element list and the
\* configured values are dropped.
WitnessSearchDialectParsesWhere ==
    /\ ConstructDone
    /\ call.data_source # None
    /\ Dialect = DSL_ES
    /\ call.where = Some(<<"[", "1", "]">>)
    /\ Truthy(call.values)
    /\ ret.exc = None
    /\ ret.val.where_filter = Some([t |-> "list", v |-> <<[t |-> "int", v |-> 1]>>])
    /\ ret.val.values = None

Called == lastCall # None

Last == lastCall[1]

LastUnit == constructed[Last.unit]

LastEnding == history[Len(history)].ending

\* C1 as stated: whenever a step of get_validation_info raises, nothing
\* propagates to the caller and the call returns None.
EveryFailureIsContained ==
    (Called /\ Last.raised # None) => (Last.propagated = None /\ Last.ret = None)

\* C1, amended: a raised Exception is contained and the call returns None; a
\* raised BaseException that is not an Exception propagates; in both cases
\* no result object is returned.
ExceptionsAreContained ==
    (Called /\ Last.raised # None) =>
        /\ Last.ret = None
        /\ IsException(Last.raised[1].cls) => Last.propagated = None
        /\ ~IsException(Last.raised[1].cls) => Last.propagated = Last.raised

\* The threshold evaluation raised TypeError and the call returned None.
WitnessThresholdFailureContained ==
    /\ Called
    /\ Last.raised # None
    /\ Last.raised[1].cls = "TypeError"
    /\ Last.trace[Len(Last.trace)] = "_validate_threshold"
    /\ Last.propagated = None
    /\ Last.ret = None

AbsDiff(m, r) == IF m >= r THEN m - r ELSE r - m

DeltaResult == Called /\ LastUnit.cls = "DeltaValidation" /\ Last.ret # None

\* C5: a delta result carries source_value = m, reference_value = r and
\* value = |m - r|, and with a threshold its (is_valid, reason) is the
\* threshold evaluation of |m - r|.
DeltaIsAbsoluteDifference ==
    DeltaResult =>
        LET m == Last.hooks[1].val
            r == Last.hooks[2].val
            result == Last.ret[1]
        IN  /\ m # None /\ r # None
            /\ result.source_value = m
            /\ result.reference_value = r
            /\ result.value = Some(AbsDiff(m[1], r[1]))
            /\ result.value[1] >= 0
            /\ LastUnit.threshold # None =>
                  <<result.is_valid, result.reason>> =
                      LET v == ExpectedVerdict(LastUnit.threshold[1], AbsDiff(m[1], r[1]))
                      IN  <<Some(v[1]), v[2]>>

\* m < r, and the difference passes a threshold that m itself fails.
WitnessDeltaJudgedNotSource ==
    /\ DeltaResult
    /\ Last.hooks[1].val[1] < Last.hooks[2].val[1]
    /\ LastUnit.threshold # None
    /\ Last.ret[1].is_valid = Some(TRUE)
    /\ ~AllSetBoundsHold(LastUnit.threshold[1], Last.hooks[1].val[1])

\* C6: a returned result has is_valid set exactly when the unit has a
\* threshold; without one _validate_threshold is not invoked, is_valid and
\* reason stay unset and the value is populated.
VerdictIffThresholdConfigured ==
    Called =>
        /\ LastUnit.threshold = None => \A i \in 1..Len(Last.trace) : Last.trace[i] # "_validate_threshold"
        /\ Last.ret # None =>
              /\ (Last.ret[1].is_valid # None) <=> (LastUnit.threshold # None)
              /\ LastUnit.threshold = None =>
                    /\ Last.ret[1].reason = None
                    /\ Last.ret[1].value =
                          IF LastUnit.cls = "Validation" THEN Last.hooks[1].val
                          ELSE Some(AbsDiff(Last.hooks[1].val[1], Last.hooks[2].val[1]))

\* A threshold with no bound populated still yields is_valid = TRUE.
WitnessUnsetBoundsStillJudged ==
    /\ Called
    /\ Last.ret # None
    /\ LastUnit.threshold = Some(UnsetThreshold)
    /\ Last.ret[1].is_valid = Some(TRUE)

ExpectedOutcome(self, hooks, now) ==
    IF self.cls = "Validation" THEN Validation_get_validation_info(self, hooks[1], now)
    ELSE DeltaValidation_get_validation_info(self, hooks[1], hooks[2], now)

ContainedCalls == SelectSeq(history, LAMBDA h : h.ending = "contained")

\* C9: a call that ends in a contained failure makes exactly one log entry,
\* with the unit's name and the failure's message; any other call makes
\* none; the log holds one entry per contained failure, in order.
OneLogEntryPerContainedFailure ==
    /\ Len(log) = Len(ContainedCalls)
    /\ stdout = Len(ContainedCalls)
    /\ \A i \in 1..Len(ContainedCalls) :
          i <= Len(log) => log[i][2] = constructed[ContainedCalls[i].unit].name
    /\ Called =>
          IF LastEnding = "contained"
          THEN Last.log = << <<"Failed to generate metric", LastUnit.name, Last.raised[1].msg>> >>
          ELSE Last.log = <<>>

\* Two contained failures, two entries.
WitnessTwoFailuresTwoEntries ==
    /\ Len(ContainedCalls) = 2
    /\ Len(log) = 2
    /\ ContainedCalls[1].unit # ContainedCalls[2].unit

HookCalls(trace) == SelectSeq(trace, LAMBDA f : f # "_validate_threshold")

Count(trace, f) == Cardinality({i \in 1..Len(trace) : trace[i] = f})

\* C10: every call invokes the primary hook exactly once and first; a delta
\* call invokes the reference hook once after the primary hook returned and
\* not at all when it raised; no hook is invoked again after a failure.
HooksInvokedOnceInOrder ==
    Called =>
        LET hookCalls == HookCalls(Last.trace)
        IN  /\ hookCalls[1] = "_generate_metric_value"
            /\ Count(hookCalls, "_generate_metric_value") = 1
            /\ IF LastUnit.cls = "Validation" THEN Len(hookCalls) = 1
               ELSE IF Raised(Last.hooks[1]) THEN Len(hookCalls) = 1
               ELSE hookCalls = <<"_generate_metric_value", "_generate_reference_metric_value">>

\* The reference hook raised after the primary hook returned: two hook
\* calls and no more.
WitnessReferenceFailsAfterPrimary ==
    /\ Called
    /\ LastUnit.cls = "DeltaValidation"
    /\ ~Raised(Last.hooks[1])
    /\ Raised(Last.hooks[2])
    /\ HookCalls(Last.trace) = <<"_generate_metric_value", "_generate_reference_metric_value">>
    /\ Last.ret = None

=============================================================================
